---- MODULE Spec2Model ----
(***************************************************************************)
(* State-machine model of the two ProtonMail userscripts:                  *)
(*   - protonmail-oldest-first.user.js  (the navigation watcher)           *)
(*   - protonmail-remove-signature.user.js (the signature stripper)        *)
(* JavaScript handlers run to completion on one event loop, so every       *)
(* handler (a patched history call, an event listener, a MutationObserver  *)
(* callback, a timer callback) is one action.  The host application and    *)
(* the browser are the environment.                                        *)
(***************************************************************************)
EXTENDS Integers, Sequences, FiniteSets, TLC

VARIABLES
    \* ---- navigation watcher (protonmail-oldest-first.user.js) ----
    loaded,      \* the userscript body has run (patches installed)
    url,         \* window.location: [path, query, hash]
    histLen,     \* history.length
    histIdx,     \* index of the current session-history entry
    btnPresent,  \* the sort dropdown button is in the DOM
    menuOpen,    \* host state: the sort dropdown is open
    optPresent,  \* the "old to new" option is in the DOM
    runs,        \* timers started by triggerSortByDate: how many of each kind
    mutPending,  \* the body MutationObserver has records queued
    owed,        \* an unmarked inbox entry was seen and the option not yet clicked
    ev,          \* what the handler that just ran did (observation only)
    visit,       \* per-visit observation counters
    \* ---- removeSignature applied to one block (protonmail-remove-signature) ----
    rsDom,       \* the DOM holding the block
    rsNode,      \* id of the block passed to removeSignature
    rsBefore,    \* the DOM as it was before the call (observation only)
    rsRes,       \* "none" before the call, then what the call returned
    \* ---- one observer callback of setupObserver applied to record batches ----
    cbDom,       \* the composer document (body first, then detached subtrees)
    cbBefore,    \* the document before the first batch (observation only)
    cbQueue,     \* batches of added nodes still to be delivered
    cbDone,      \* the batches delivered so far (observation only)
    cbBrs,       \* <br> elements the callback has created
    cbRets,      \* values returned by removeSignature so far (observation only)
    cbEscaped,   \* callbacks ended by an exception
    \* ---- signature stripper (protonmail-remove-signature.user.js) ----
    sigLoaded,   \* the script body has run
    styles,      \* the style rules the script has added to the head, in order
    stylesSeen,  \* rules in place when the body observer was attached and when
                 \* the composers already present were scanned (observation only)
    place,       \* per composer iframe: where it sits in the page
    bodyQ,       \* records queued for the body MutationObserver
    ready,       \* per composer: iframe.contentDocument is usable
    timers,      \* pending checkDoc timeouts, in firing order
    started,     \* per composer: calls of waitForIframeDoc so far
    rejected,    \* per composer: waitForIframeDoc promises rejected so far
    uncaught,    \* errors that escaped to the event loop
    docs,        \* per composer: the DOM of its document
    gen,         \* per composer: signature blocks the host has inserted
    brs,         \* per composer: <br> elements the script has created
    mq,          \* per composer: one record queue per attached observer
    late         \* per composer: inserted after a waiter had been rejected (observation only)

navVars == <<loaded, url, histLen, histIdx, btnPresent, menuOpen, optPresent,
             runs, mutPending, owed, ev, visit>>

remVars == <<rsDom, rsNode, rsBefore, rsRes>>

cbVars == <<cbDom, cbBefore, cbQueue, cbDone, cbBrs, cbRets, cbEscaped>>

sigVars == <<sigLoaded, styles, stylesSeen, place, bodyQ, ready, timers, started, rejected,
             uncaught, docs, gen, brs, mq, late>>

vars == <<navVars, remVars, cbVars, sigVars>>

\* ------------------------------------------------------------------------
\* Bounds of the model
\* ------------------------------------------------------------------------
MaxHist == 2
MaxRuns == 2
MaxNest == 3
MaxNotif == 3
MaxPre == 3
MaxGen == 1
MaxCb == 3

\* ------------------------------------------------------------------------
\* URLs.  A path is a sequence of characters, where the literal "inbox" and
\* "sent" are kept as one token each; a fragment is a sequence of tokens of
\* which "sort=date" is the marker.
\* ------------------------------------------------------------------------
Digit == {"0", "1"}

sortParam == "sort=date"

InboxPath == <<"/", "u", "/", "0", "/", "inbox">>
InboxPath2 == <<"/", "u", "/", "1", "0", "/", "inbox">>
ConvPath == <<"/", "u", "/", "0", "/", "inbox", "/", "x">>

Paths == {InboxPath, InboxPath2, ConvPath}
Queries == {"", "q"}
Hashes == {<<>>, <<"x">>, <<sortParam>>, <<"x", sortParam>>}

URLs == [path : Paths, query : Queries, hash : Hashes]

\* CONFIG.url.inboxPattern: /^\/u\/\d+\/inbox$/
inboxPattern(p) ==
    \E k \in 1..Len(p) :
        /\ Len(p) = 5 + k
        /\ p[1] = "/" /\ p[2] = "u" /\ p[3] = "/"
        /\ \A i \in 4..(3 + k) : p[i] \in Digit
        /\ p[4 + k] = "/"
        /\ p[5 + k] = "inbox"

\* String.prototype.includes on the fragment
IncludesExact(h, m) == h = <<m>>
includes(h, m) == \E i \in 1..Len(h) : h[i] = m

\* the condition of checkURL
NeedsSortPathOnly(u) == inboxPattern(u.path)
NeedsSort(u) == inboxPattern(u.path) /\ ~includes(u.hash, sortParam)

\* url.hash = CONFIG.url.sortParam
SetHashAppend(u) == [u EXCEPT !.hash = Append(u.hash, sortParam)]
SetHash(u) == [u EXCEPT !.hash = <<sortParam>>]

\* ------------------------------------------------------------------------
\* DOM trees of a composer document.  A node is
\*   [id, tag, cls, kids]: identity, tag name ("#text" for a text node),
\*   the set of its classes, and its child nodes in document order.
\* A DOM is a sequence of trees: the first is the document's body, every
\* other one is a detached subtree that is still referenced.
\* ------------------------------------------------------------------------
signatureBlock == "protonmail_signature_block"
protonSignature == "protonmail_signature_block-proton"
emptySignature == "protonmail_signature_block-empty"
userSignature == "protonmail_signature_block-user"

Null == [id |-> <<"null", 0>>, tag |-> "#null", cls |-> {}, kids |-> <<>>]

Node(id, tag, cls, kids) == [id |-> id, tag |-> tag, cls |-> cls, kids |-> kids]
Text(id) == Node(id, "#text", {}, <<>>)
IsElement(n) == n.tag \notin {"#text", "#null"}

RECURSIVE Flat(_)
RECURSIVE FlatSeq(_)
\* the subtree of n in document order, n first
Flat(n) == <<n>> \o FlatSeq(n.kids)
FlatSeq(s) == IF s = <<>> THEN <<>> ELSE Flat(Head(s)) \o FlatSeq(Tail(s))

\* every node of the DOM, attached or detached
AllNodes(dom) == FlatSeq(dom)
Range(s) == {s[i] : i \in 1..Len(s)}
Ids(s) == {s[i].id : i \in 1..Len(s)}

NodeById(dom, id) ==
    LET all == AllNodes(dom)
    IN  IF \E i \in 1..Len(all) : all[i].id = id
        THEN all[CHOOSE i \in 1..Len(all) : all[i].id = id]
        ELSE Null

IndexIn(kids, id) ==
    IF \E i \in 1..Len(kids) : kids[i].id = id
    THEN CHOOSE i \in 1..Len(kids) : kids[i].id = id
    ELSE 0

\* node.parentNode: Null for the root of a tree
parentNode(dom, id) ==
    LET all == AllNodes(dom)
    IN  IF \E i \in 1..Len(all) : IndexIn(all[i].kids, id) > 0
        THEN all[CHOOSE i \in 1..Len(all) : IndexIn(all[i].kids, id) > 0]
        ELSE Null

\* node.previousSibling
previousSibling(dom, id) ==
    LET p == parentNode(dom, id)
        i == IndexIn(p.kids, id)
    IN  IF i <= 1 THEN Null ELSE p.kids[i - 1]

\* node.previousElementSibling
previousElementSibling(dom, id) ==
    LET p == parentNode(dom, id)
        i == IndexIn(p.kids, id)
        E == {j \in 1..(i - 1) : IsElement(p.kids[j])}
    IN  IF E = {} THEN Null
        ELSE p.kids[CHOOSE j \in E : \A k \in E : k <= j]

\* node.firstChild
firstChild(n) == IF n.kids = <<>> THEN Null ELSE n.kids[1]

\* node.firstElementChild
firstElementChild(n) ==
    LET E == {j \in 1..Len(n.kids) : IsElement(n.kids[j])}
    IN  IF E = {} THEN Null
        ELSE n.kids[CHOOSE j \in E : \A k \in E : j <= k]

\* node.querySelectorAll('.' + c): the descendants of n with class c
querySelectorAll(n, c) ==
    LET d == FlatSeq(n.kids)
    IN  SelectSeq(d, LAMBDA x : c \in x.cls)

\* a selector that matches every element carrying any class
querySelectorLoose(n, c) ==
    LET m == SelectSeq(FlatSeq(n.kids), LAMBDA x : x.cls # {})
    IN  IF m = <<>> THEN Null ELSE Head(m)

\* node.querySelector('.' + c)
querySelector(n, c) ==
    LET m == querySelectorAll(n, c)
    IN  IF m = <<>> THEN Null ELSE Head(m)

RECURSIVE Prune(_, _)
RECURSIVE PruneSeq(_, _)
Prune(n, id) == [n EXCEPT !.kids = PruneSeq(@, id)]
PruneSeq(s, id) ==
    IF s = <<>> THEN <<>>
    ELSE IF Head(s).id = id THEN PruneSeq(Tail(s), id)
    ELSE <<Prune(Head(s), id)>> \o PruneSeq(Tail(s), id)

\* child.remove(): the node leaves its parent (a root stays where it is)
remove(dom, id) == [r \in 1..Len(dom) |-> Prune(dom[r], id)]

InsertAt(kids, i, n) ==
    [j \in 1..(Len(kids) + 1) |->
        IF j < i THEN kids[j] ELSE IF j = i THEN n ELSE kids[j - 1]]

RECURSIVE Graft(_, _, _, _)
RECURSIVE GraftSeq(_, _, _, _)
Graft(n, pid, new, ref) ==
    IF n.id = pid
    THEN [n EXCEPT !.kids = InsertAt(@, IndexIn(@, ref), new)]
    ELSE [n EXCEPT !.kids = GraftSeq(@, pid, new, ref)]
GraftSeq(s, pid, new, ref) ==
    [j \in 1..Len(s) |-> Graft(s[j], pid, new, ref)]

\* parent.insertBefore(new, ref), ref a child of the node pid
insertBefore(dom, pid, new, ref) == GraftSeq(dom, pid, new, ref)

\* ------------------------------------------------------------------------
\* removeSignature(node): the DOM afterwards, the value returned and whether
\* the try block threw.  brId is the identity of the <br> it creates.
\* ------------------------------------------------------------------------
\* lines 92-98: remove the vendor signature element if there is one
removeVendor(d, signature) ==
    IF signature # Null
    THEN [dom |-> remove(d, signature.id), ok |-> TRUE, threw |-> FALSE,
          escaped |-> FALSE]
    ELSE [dom |-> d, ok |-> FALSE, threw |-> FALSE, escaped |-> FALSE]

\* lines 87-89: prevPrev?.remove(); prev?.remove()
removeBoth(d, prev, prevPrev) ==
    remove(IF prevPrev = Null THEN d ELSE remove(d, prevPrev.id), prev.id)

\* lines 84-90, prev and isEmptySignature as read at lines 75-78
cleanupSiblings(d, prev, isEmptySignature) ==
    IF prev = Null THEN d
    ELSE IF ~isEmptySignature THEN remove(d, prev.id)
    ELSE removeBoth(d, prev, previousElementSibling(d, prev.id))

\* lines 84-98 on the document d that already holds the <br>
afterLineBreak(d, id, prev, isEmptySignature) ==
    removeVendor(cleanupSiblings(d, prev, isEmptySignature),
                 querySelector(NodeById(d, id), protonSignature))

\* lines 75-98, the try block; a null node.parentNode makes line 82 throw
\* (escaped: an exception is on its way out)
removeSignatureFrom(dom, id, br, prev, isEmptySignature, parent) ==
    IF parent = Null
    THEN [dom |-> dom, ok |-> FALSE, threw |-> TRUE, escaped |-> TRUE]
    ELSE afterLineBreak(insertBefore(dom, parent.id, br, id), id, prev,
                        isEmptySignature)

\* lines 74, 99-101: try { ... } catch { return false; }
tryWithoutCatch(res) == res
tryCatch(res) == [res EXCEPT !.escaped = FALSE]

removeSignature(dom, id, brId) ==
    tryCatch(
        removeSignatureFrom(dom, id, Node(brId, "br", {}, <<>>),
                            previousElementSibling(dom, id),
                            emptySignature \in firstElementChild(NodeById(dom, id)).cls,
                            parentNode(dom, id)))

\* ------------------------------------------------------------------------
\* removeSignature on its own: every input document is a body whose children
\* are up to MaxPre nodes (elements or text), the signature block, and
\* possibly the quoted message after it.
\* ------------------------------------------------------------------------
BodyId == <<"body", 0>>
BlockId == <<"blk", 1>>
BrId == <<"br", 1>>

UserSig == Node(<<"user", 1>>, "div", {userSignature}, <<>>)
UserSigEmpty == Node(<<"user", 1>>, "div", {userSignature, emptySignature}, <<>>)
ProtonSig == Node(<<"proton", 1>>, "div", {protonSignature}, <<>>)
ProtonSig2 == Node(<<"proton", 2>>, "div", {protonSignature}, <<>>)
ProtonSigEmpty == Node(<<"proton", 1>>, "div", {protonSignature, emptySignature}, <<>>)
InnerText == Text(<<"btext", 1>>)
Wrapped(n) == Node(<<"wrap", 1>>, "div", {}, <<n>>)

BlockKids ==
    { <<>>, <<UserSig>>, <<UserSigEmpty>>, <<ProtonSig>>,
      <<UserSig, ProtonSig>>, <<UserSigEmpty, ProtonSig>>,
      <<InnerText, UserSig, ProtonSig>>, <<InnerText, UserSigEmpty, ProtonSig>>,
      <<UserSig, Wrapped(ProtonSig)>>, <<UserSigEmpty, Wrapped(ProtonSig)>>,
      <<ProtonSigEmpty>>, <<UserSigEmpty, ProtonSig, ProtonSig2>>,
      <<ProtonSig, UserSigEmpty>> }

BlockClasses == { {signatureBlock}, {signatureBlock, emptySignature} }

PreNode(kind, i) ==
    IF kind = "text" THEN Text(<<"pre", i>>)
    ELSE Node(<<"pre", i>>, "div", {}, <<>>)

PreSeqs ==
    UNION { { [i \in 1..n |-> PreNode(f[i], i)] : f \in [1..n -> {"elem", "text"}] }
            : n \in 0..MaxPre }

PostSeqs == { <<>>, <<Node(<<"quote", 1>>, "blockquote", {}, <<>>)>> }

InputDoms ==
    { << Node(BodyId, "body", {},
              pre \o <<Node(BlockId, "div", c, k)>> \o post) >> :
        pre \in PreSeqs, c \in BlockClasses, k \in BlockKids, post \in PostSeqs }

IdleCb ==
    /\ cbDom = <<>>
    /\ cbBefore = <<>>
    /\ cbQueue = <<>>
    /\ cbDone = <<>>
    /\ cbBrs = 0
    /\ cbRets = <<>>
    /\ cbEscaped = 0

IdleRem ==
    /\ IdleCb
    /\ rsDom = <<>>
    /\ rsNode = Null.id
    /\ rsBefore = <<>>
    /\ rsRes = "none"

\* ------------------------------------------------------------------------
\* Signature stripper: composers, waitForIframeDoc, setupObserver
\* ------------------------------------------------------------------------
Composers == {1, 2}

maxInitAttempts == 50

EmptyDoc == << Node(BodyId, "body", {}, <<>>) >>

IdleSig ==
    /\ sigLoaded = FALSE
    /\ styles = <<>>
    /\ stylesSeen = <<>>
    /\ place = [c \in Composers |-> "absent"]
    /\ bodyQ = <<>>
    /\ ready = [c \in Composers |-> FALSE]
    /\ timers = <<>>
    /\ started = [c \in Composers |-> 0]
    /\ rejected = [c \in Composers |-> 0]
    /\ uncaught = 0
    /\ docs = [c \in Composers |-> <<>>]
    /\ gen = [c \in Composers |-> 0]
    /\ brs = [c \in Composers |-> 0]
    /\ mq = [c \in Composers |-> <<>>]
    /\ late = [c \in Composers |-> FALSE]

\* The stripper's state as one record, for the handlers below
Sig == [timers |-> timers, started |-> started, rejected |-> rejected,
        uncaught |-> uncaught, docs |-> docs, brs |-> brs, mq |-> mq]

\* the records a change of document c queues: one per observer of c
Enqueue(q, ids) == [k \in 1..Len(q) |-> q[k] \o ids]

\* The observer callback's body for one added node (also the pre-pass body,
\* which has no class test): r = [dom, brs, added, rets, escaped]
\* accumulates the document, the <br> count, the ids of the nodes the script
\* itself has added, the values removeSignature returned, and whether an
\* exception has left removeSignature (which ends the forEach).
Acc(dom, n) ==
    [dom |-> dom, brs |-> n, added |-> <<>>, rets |-> <<>>, escaped |-> FALSE]

Stripped(r, res) ==
    IF res.threw
    THEN [r EXCEPT !.rets = Append(@, FALSE), !.escaped = res.escaped]
    ELSE [r EXCEPT !.dom = res.dom,
                   !.brs = @ + 1,
                   !.added = Append(@, <<"br", r.brs + 1>>),
                   !.rets = Append(@, res.ok)]

StripIfVendor(r, id) ==
    IF querySelector(NodeById(r.dom, id), protonSignature) # Null
    THEN Stripped(r, removeSignature(r.dom, id, <<"br", r.brs + 1>>))
    ELSE r

\* lines 116-126: skip nodes without classList, then the class test
IsSignatureBlock(node) == IsElement(node) /\ signatureBlock \in node.cls

HandleAdded(r, id) ==
    IF IsSignatureBlock(NodeById(r.dom, id)) THEN StripIfVendor(r, id) ELSE r

RECURSIVE HandleAll(_, _)
\* mutations.forEach(({addedNodes}) => addedNodes.forEach(...))
HandleAll(r, ids) ==
    IF ids = <<>> \/ r.escaped THEN r
    ELSE HandleAll(HandleAdded(r, Head(ids)), Tail(ids))

RECURSIVE PrePass(_, _)
\* existingSignatures.forEach(...) over the static NodeList
PrePass(r, ids) ==
    IF ids = <<>> \/ r.escaped THEN r
    ELSE PrePass(StripIfVendor(r, Head(ids)), Tail(ids))

\* setupObserver(iframeDoc) for composer c: a new observer on the document,
\* then the pre-pass; what the pre-pass adds is queued for every observer
\* of the document, the new one included.
Observed(s, c, r) ==
    [s EXCEPT !.mq[c] = Enqueue(Append(@, <<>>), r.added),
              !.docs[c] = r.dom,
              !.brs[c] = r.brs]

IdsOf(ns) == [i \in 1..Len(ns) |-> ns[i].id]

setupObserver(s, c) ==
    Observed(s, c,
             PrePass(Acc(s.docs[c], s.brs[c]),
                     IdsOf(querySelectorAll(s.docs[c][1], signatureBlock))))

\* line 173: attempts >= CONFIG.maxInitAttempts
ExhaustedOffByOne(attempts) == attempts > maxInitAttempts
Exhausted(attempts) == attempts >= maxInitAttempts

\* checkDoc, entered with `attempts` already made by this waiter; isReady
\* is what iframe.contentDocument offers now.  A resolved promise runs
\* setupObserver; a rejected one runs the empty catch handler.
checkDoc(s, c, attempts, isReady) ==
    LET a == attempts + 1
    IN  IF isReady THEN setupObserver(s, c)
        ELSE IF Exhausted(a)
        THEN [s EXCEPT !.rejected[c] = @ + 1]
        ELSE [s EXCEPT !.timers = Append(@, [comp |-> c, attempts |-> a])]

\* waitForIframeDoc(iframe).then(setupObserver).catch(() => {})
waitForIframeDoc(s, c, isReady) ==
    checkDoc([s EXCEPT !.started[c] = @ + 1], c, 0, isReady)

CommitSig(s) ==
    /\ timers' = s.timers
    /\ started' = s.started
    /\ rejected' = s.rejected
    /\ uncaught' = s.uncaught
    /\ docs' = s.docs
    /\ brs' = s.brs
    /\ mq' = s.mq

\* ------------------------------------------------------------------------
\* Observation records (they do not influence the program)
\* ------------------------------------------------------------------------
NoURL == [path |-> <<>>, query |-> "", hash |-> <<>>]

NoEv == [kind |-> "none", entry |-> NoURL, elen |-> 0, eidx |-> 0,
         writes |-> 0, triggers |-> 0, clicks |-> 0, timers |-> 0,
         opts |-> 0, cleared |-> 0, depth |-> 0, overflow |-> FALSE]

BeginEv(kind, u, len, idx) ==
    [NoEv EXCEPT !.kind = kind, !.entry = u, !.elen = len, !.eidx = idx]

NoVisit == [active |-> FALSE, writes |-> 0, triggers |-> 0, notifs |-> 0]

Max(a, b) == IF a >= b THEN a ELSE b
Min(a, b) == IF a <= b THEN a ELSE b

\* the claim-side reading of "the inbox route without the marker"
HasMarker(u) == \E i \in 1..Len(u.hash) : u.hash[i] = sortParam
OnInbox(u) == u.path \in {InboxPath, InboxPath2}
EntersUnmarked(u) == OnInbox(u) /\ ~HasMarker(u)

\* ------------------------------------------------------------------------
\* The watcher's handlers as functions on the page state
\*   s = [url, hlen, hidx, btn, menu, opt, runs, mut, ev]
\* ------------------------------------------------------------------------
Page == [url |-> url, hlen |-> histLen, hidx |-> histIdx, btn |-> btnPresent,
         menu |-> menuOpen, opt |-> optPresent, runs |-> runs,
         mut |-> mutPending, ev |-> ev]

\* A run of triggerSortByDate that found the button owns one timer: first its
\* polling interval, then its close timeout.  stale: the button it captured
\* has since been removed from the document.
RunKinds == [phase : {"poll", "close"}, stale : BOOLEAN]
NewRun == [phase |-> "poll", stale |-> FALSE]
NoRuns == [k \in RunKinds |-> 0]
AddRun(b, k) == [b EXCEPT ![k] = @ + 1]
DelRun(b, k) == [b EXCEPT ![k] = @ - 1]
RunCount(b) == b[[phase |-> "poll", stale |-> FALSE]] + b[[phase |-> "poll", stale |-> TRUE]]
               + b[[phase |-> "close", stale |-> FALSE]] + b[[phase |-> "close", stale |-> TRUE]]

\* triggerSortByDate: querySelector(dropdownButton); if found click it and
\* start the polling interval.  The host toggles its dropdown on the click.
triggerSortByDateNoGuard(s) ==
    [s EXCEPT !.menu = IF s.btn THEN ~@ ELSE @,
              !.mut = TRUE,
              !.runs = AddRun(@, NewRun),
              !.ev.triggers = @ + 1,
              !.ev.clicks = @ + 1,
              !.ev.timers = @ + 1]
triggerSortByDate(s) ==
    IF s.btn
    THEN [s EXCEPT !.menu = ~@,
                   !.mut = TRUE,
                   !.runs = AddRun(@, NewRun),
                   !.ev.triggers = @ + 1,
                   !.ev.clicks = @ + 1,
                   !.ev.timers = @ + 1]
    ELSE [s EXCEPT !.ev.triggers = @ + 1]

\* the poll of run k that finds the option: clearInterval(interval), the
\* click on the option, setTimeout(close)
PollFoundNoClear(b, k) == AddRun(b, [k EXCEPT !.phase = "close"])
PollFound(b, k) == AddRun(DelRun(b, k), [k EXCEPT !.phase = "close"])

\* what a timer callback reports of itself: clicks on the dropdown button,
\* clicks on the option, intervals cleared, timers started
TickEv(kind, nClicks, nOpts, nCleared, nTimers) ==
    [NoEv EXCEPT !.kind = kind, !.clicks = nClicks, !.opts = nOpts,
                 !.cleared = nCleared, !.timers = nTimers]

\* the browser's own history.replaceState / history.pushState
originalReplaceState(s, u) == [s EXCEPT !.url = u]
originalPushState(s, u) ==
    [s EXCEPT !.url = u, !.hlen = s.hidx + 1, !.hidx = s.hidx + 1]

RECURSIVE checkURL(_, _)
RECURSIVE patchedReplaceState(_, _, _)

\* checkURL, running as the d-th nested checkURL frame.  A nesting deeper
\* than MaxNest stands for the engine's stack overflow: the RangeError unwinds
\* every frame, so the frames above skip what follows their call.
checkURL(s, d) ==
    IF d > MaxNest
    THEN [s EXCEPT !.ev.overflow = TRUE]
    ELSE LET s0 == [s EXCEPT !.ev.depth = Max(@, d)]
         IN  IF NeedsSort(s0.url)
             THEN LET s1 == patchedReplaceState(
                                [s0 EXCEPT !.ev.writes = Min(@ + 1, MaxNotif)],
                                SetHash(s0.url), d)
                  IN  IF s1.ev.overflow THEN s1 ELSE triggerSortByDate(s1)
             ELSE s0

patchedReplaceStateCheckFirst(s, u, d) ==
    originalReplaceState(checkURL(s, d + 1), u)

\* history.replaceState as overridden by the script, called from frame d
patchedReplaceState(s, u, d) == checkURL(originalReplaceState(s, u), d + 1)

\* history.pushState as overridden by the script
patchedPushState(s, u, d) == checkURL(originalPushState(s, u), d + 1)

\* commit a handler's result
Commit(s) ==
    /\ RunCount(s.runs) <= MaxRuns
    /\ url' = s.url
    /\ histLen' = s.hlen
    /\ histIdx' = s.hidx
    /\ btnPresent' = s.btn
    /\ menuOpen' = s.menu
    /\ optPresent' = s.opt
    /\ runs' = s.runs
    /\ mutPending' = s.mut
    /\ ev' = s.ev
    /\ UNCHANGED <<remVars, cbVars, sigVars>>
    /\ owed' = (owed \/ EntersUnmarked(s.ev.entry))
    /\ visit' =
         IF EntersUnmarked(s.ev.entry)
         THEN [active |-> TRUE, writes |-> s.ev.writes,
               triggers |-> Min(s.ev.triggers, MaxNotif), notifs |-> 1]
         ELSE IF visit.active /\ OnInbox(s.ev.entry)
         THEN [active |-> TRUE,
               writes |-> Min(visit.writes + s.ev.writes, MaxNotif),
               triggers |-> Min(visit.triggers + s.ev.triggers, MaxNotif),
               notifs |-> Min(visit.notifs + 1, MaxNotif)]
         ELSE NoVisit

\* ------------------------------------------------------------------------
\* Navigation watcher: initial state and actions
\* ------------------------------------------------------------------------
IdleNav ==
    /\ loaded = FALSE
    /\ url = [path |-> InboxPath, query |-> "", hash |-> <<>>]
    /\ histLen = 1
    /\ histIdx = 1
    /\ btnPresent = FALSE
    /\ menuOpen = FALSE
    /\ optPresent = FALSE
    /\ runs = NoRuns
    /\ mutPending = FALSE
    /\ owed = FALSE
    /\ ev = NoEv
    /\ visit = NoVisit

InitNav ==
    /\ IdleRem
    /\ IdleSig
    /\ loaded = FALSE
    /\ url \in URLs
    /\ histLen \in 1..MaxHist
    /\ histIdx \in 1..histLen
    /\ btnPresent \in BOOLEAN
    /\ menuOpen = FALSE
    /\ optPresent = FALSE
    /\ runs = NoRuns
    /\ mutPending = FALSE
    /\ owed = FALSE
    /\ ev = NoEv
    /\ visit = NoVisit

\* the script body: install the overrides, the popstate listener and the
\* body observer, then the initial checkURL()
ScriptLoad ==
    /\ ~loaded
    /\ loaded' = TRUE
    /\ Commit(checkURL([Page EXCEPT !.ev = BeginEv("load", url, histLen, histIdx)], 1))

\* the host application calls history.pushState(_, _, u)
HostPushState ==
    /\ loaded
    /\ histIdx < MaxHist
    /\ \E u \in URLs :
         Commit(patchedPushState(
                   [Page EXCEPT !.ev = BeginEv("push", u, histIdx + 1, histIdx + 1)],
                   u, 0))
    /\ UNCHANGED loaded

\* the host application calls history.replaceState(_, _, u)
HostReplaceState ==
    /\ loaded
    /\ \E u \in URLs :
         Commit(patchedReplaceState(
                   [Page EXCEPT !.ev = BeginEv("replace", u, histLen, histIdx)],
                   u, 0))
    /\ UNCHANGED loaded

\* back / forward: the browser moves to another entry, whose URL may be any
\* (entries can predate the script), and fires popstate
Popstate ==
    /\ loaded
    /\ \E i \in 1..histLen, u \in URLs :
         /\ i # histIdx
         /\ Commit(checkURL(
                   [Page EXCEPT !.url = u, !.hidx = i,
                                !.ev = BeginEv("popstate", u, histLen, i)], 1))
    /\ UNCHANGED loaded

\* the body MutationObserver delivers its queued records to checkURL
MutationNotify ==
    /\ loaded
    /\ mutPending
    /\ Commit(checkURL(
           [Page EXCEPT !.mut = FALSE,
                        !.ev = BeginEv("mutation", url, histLen, histIdx)], 1))
    /\ UNCHANGED loaded

\* one firing of the setInterval callback of a run
PollTick ==
    /\ \E k \in RunKinds :
         /\ k.phase = "poll"
         /\ runs[k] > 0
         /\ IF optPresent
            THEN \* clearInterval; sortOldestFirstButton.click(); setTimeout(close)
                 /\ runs' = PollFound(runs, k)
                 /\ owed' = FALSE
                 /\ mutPending' = TRUE
                 /\ ev' = TickEv("poll", 0, 1, 1, 1)
            ELSE /\ UNCHANGED <<runs, owed, mutPending>>
                 /\ ev' = TickEv("poll", 0, 0, 0, 0)
    /\ UNCHANGED <<remVars, cbVars, sigVars>>
    /\ UNCHANGED <<loaded, url, histLen, histIdx, btnPresent, menuOpen,
                   optPresent, visit>>

\* the setTimeout callback of a run: dropdownButton.click() on the button
\* captured by the run; a click on a detached button reaches no host handler
CloseTick ==
    /\ \E k \in RunKinds :
         /\ k.phase = "close"
         /\ runs[k] > 0
         /\ runs' = DelRun(runs, k)
         /\ IF k.stale
            THEN UNCHANGED <<menuOpen, mutPending>>
            ELSE menuOpen' = ~menuOpen /\ mutPending' = TRUE
    /\ ev' = TickEv("close", 1, 0, 0, 0)
    /\ UNCHANGED <<remVars, cbVars, sigVars>>
    /\ UNCHANGED <<loaded, url, histLen, histIdx, btnPresent, optPresent,
                   owed, visit>>

\* the host renders the toolbar with the sort dropdown button
HostRenderButton ==
    /\ ~btnPresent
    /\ btnPresent' = TRUE
    /\ mutPending' = loaded
    /\ ev' = NoEv
    /\ UNCHANGED <<remVars, cbVars, sigVars>>
    /\ UNCHANGED <<loaded, url, histLen, histIdx, menuOpen, optPresent,
                   runs, owed, visit>>

\* the host removes the toolbar (and with it an open dropdown); the buttons
\* captured by running sequences are detached from now on
HostRemoveButton ==
    /\ btnPresent
    /\ btnPresent' = FALSE
    /\ menuOpen' = FALSE
    /\ optPresent' = FALSE
    /\ runs' = [k \in RunKinds |->
                   IF k.stale THEN runs[k] + runs[[k EXCEPT !.stale = FALSE]] ELSE 0]
    /\ mutPending' = loaded
    /\ ev' = NoEv
    /\ UNCHANGED <<remVars, cbVars, sigVars>>
    /\ UNCHANGED <<loaded, url, histLen, histIdx, owed, visit>>

\* the host renders (or removes) the dropdown's options after a toggle
HostRenderMenu ==
    /\ optPresent # menuOpen
    /\ optPresent' = menuOpen
    /\ mutPending' = loaded
    /\ ev' = NoEv
    /\ UNCHANGED <<remVars, cbVars, sigVars>>
    /\ UNCHANGED <<loaded, url, histLen, histIdx, btnPresent, menuOpen,
                   runs, owed, visit>>

NextNav ==
    \/ ScriptLoad
    \/ HostPushState
    \/ HostReplaceState
    \/ Popstate
    \/ MutationNotify
    \/ PollTick
    \/ CloseTick
    \/ HostRenderButton
    \/ HostRemoveButton
    \/ HostRenderMenu

SpecNav == InitNav /\ [][NextNav]_vars

\* ------------------------------------------------------------------------
\* removeSignature on its own: initial states and the call
\* ------------------------------------------------------------------------
InitRem ==
    /\ IdleNav
    /\ IdleSig
    /\ IdleCb
    /\ rsDom \in InputDoms
    /\ rsNode = BlockId
    /\ rsBefore = rsDom
    /\ rsRes = "none"

\* the call removeSignature(node)
CallRemoveSignature ==
    /\ rsRes = "none"
    /\ rsNode # Null.id
    /\ LET r == removeSignature(rsDom, rsNode, BrId)
       IN  /\ rsDom' = r.dom
           /\ rsRes' = IF r.threw THEN "threw-false"
                       ELSE IF r.ok THEN "true" ELSE "false"
    /\ UNCHANGED <<rsNode, rsBefore, navVars, cbVars, sigVars>>

NextRem == CallRemoveSignature

SpecRem == InitRem /\ [][NextRem]_vars

\* ------------------------------------------------------------------------
\* The observer callback on its own.  The document holds up to MaxCb
\* signature blocks, each attached to the body after two spacer lines or
\* detached again by the time the callback runs, with or without a vendor
\* signature, regular or empty.  The added nodes reach the callback in two
\* batches; what the callback adds itself comes back as a further batch.
\* ------------------------------------------------------------------------
CbShapes == [attached : BOOLEAN, vendor : BOOLEAN, empty : BOOLEAN]

CbBlock(k, f) ==
    Node(<<"blk", k>>, "div", {signatureBlock},
         << Node(<<"user", k>>, "div",
                 IF f.empty THEN {userSignature, emptySignature}
                 ELSE {userSignature}, <<>>) >>
         \o (IF f.vendor
             THEN << Node(<<"proton", k>>, "div", {protonSignature}, <<>>) >>
             ELSE <<>>))

CbLines(k) ==
    << Node(<<"sp1", k>>, "div", {}, <<>>), Node(<<"sp2", k>>, "div", {}, <<>>) >>

RECURSIVE CbBody(_, _)
CbBody(g, k) ==
    IF k = 0 THEN <<>>
    ELSE CbBody(g, k - 1)
         \o (IF g[k].attached THEN CbLines(k) \o <<CbBlock(k, g[k])>> ELSE <<>>)

RECURSIVE CbDetached(_, _)
CbDetached(g, k) ==
    IF k = 0 THEN <<>>
    ELSE CbDetached(g, k - 1)
         \o (IF g[k].attached THEN <<>> ELSE <<CbBlock(k, g[k])>>)

CbDocument(g) == << Node(BodyId, "body", {}, CbBody(g, MaxCb)) >> \o CbDetached(g, MaxCb)

RECURSIVE CbAdded(_, _, _)
\* the added nodes of blocks i..j, in insertion order
CbAdded(g, i, j) ==
    IF i > j THEN <<>>
    ELSE (IF g[i].attached THEN <<<<"sp1", i>>, <<"sp2", i>>, <<"blk", i>>>>
          ELSE <<<<"blk", i>>>>)
         \o CbAdded(g, i + 1, j)

InitCb ==
    /\ IdleNav
    /\ IdleSig
    /\ rsDom = <<>>
    /\ rsNode = Null.id
    /\ rsBefore = <<>>
    /\ rsRes = "none"
    /\ \E g \in [1..MaxCb -> CbShapes], j \in 1..(MaxCb - 1) :
         /\ cbDom = CbDocument(g)
         /\ cbQueue = << CbAdded(g, 1, j), CbAdded(g, j + 1, MaxCb) >>
    /\ cbBefore = cbDom
    /\ cbDone = <<>>
    /\ cbBrs = 0
    /\ cbRets = <<>>
    /\ cbEscaped = 0

\* the MutationObserver callback of setupObserver with the next batch
CbDeliver ==
    /\ cbQueue # <<>>
    /\ LET r == HandleAll(Acc(cbDom, cbBrs), Head(cbQueue))
       IN  /\ cbDom' = r.dom
           /\ cbBrs' = r.brs
           /\ cbRets' = cbRets \o r.rets
           /\ cbEscaped' = IF r.escaped THEN cbEscaped + 1 ELSE cbEscaped
           /\ cbQueue' = Tail(cbQueue) \o (IF r.added = <<>> THEN <<>> ELSE <<r.added>>)
    /\ cbDone' = Append(cbDone, Head(cbQueue))
    /\ UNCHANGED <<cbBefore, remVars, navVars, sigVars>>

NextCb == CbDeliver

SpecCb == InitCb /\ [][NextCb]_vars

\* ------------------------------------------------------------------------
\* Signature stripper: initial state and actions
\* ------------------------------------------------------------------------
InPage(p) == p \in {"direct", "boxed"}

\* Before the script runs the page may already hold the first composer.
InitSig ==
    /\ IdleNav
    /\ IdleRem
    /\ sigLoaded = FALSE
    /\ styles = <<>>
    /\ stylesSeen = <<>>
    /\ place \in {f \in [Composers -> {"absent", "direct", "boxed"}] :
                    \A c \in Composers : c > 1 => f[c] = "absent"}
    /\ bodyQ = <<>>
    /\ ready \in {f \in [Composers -> BOOLEAN] :
                    \A c \in Composers : f[c] => InPage(place[c])}
    /\ timers = <<>>
    /\ started = [c \in Composers |-> 0]
    /\ rejected = [c \in Composers |-> 0]
    /\ uncaught = 0
    /\ docs = [c \in Composers |-> IF ready[c] THEN EmptyDoc ELSE <<>>]
    /\ gen = [c \in Composers |-> 0]
    /\ brs = [c \in Composers |-> 0]
    /\ mq = [c \in Composers |-> <<>>]
    /\ late = [c \in Composers |-> FALSE]

RECURSIVE WaitEach(_, _)
\* existingComposers.forEach(iframe => waitForIframeDoc(iframe)...)
WaitEach(s, cs) ==
    IF cs = <<>> THEN s
    ELSE WaitEach(waitForIframeDoc(s, Head(cs), ready[Head(cs)]), Tail(cs))

ComposerSeq == [i \in 1..Cardinality(Composers) |-> i]

\* The script body works on b = [styles, seen, sig]: the style rules in the
\* head, the observation stylesSeen, and the stripper's state.
Boot == [styles |-> styles, seen |-> stylesSeen, sig |-> Sig]

\* the rule of injectHideSignatureCSS: the classes it hides
HideRule == {signatureBlock, protonSignature, emptySignature}

\* injectHideSignatureCSS(): document.head.appendChild(style)
injectHideSignatureCSS(b) == [b EXCEPT !.styles = Append(@, HideRule)]

\* setupComposerObserver(): observer.observe(document.body, ...), then the
\* scan of the composers already in the page
setupComposerObserver(b) ==
    [b EXCEPT !.seen = <<Len(b.styles), Len(b.styles)>>,
              !.sig = WaitEach(@, SelectSeq(ComposerSeq, LAMBDA c : InPage(place[c])))]

\* lines 231 and 234
scriptBodyObserverFirst(b) == injectHideSignatureCSS(setupComposerObserver(b))
scriptBody(b) == setupComposerObserver(injectHideSignatureCSS(b))

\* the script body: injectHideSignatureCSS(); setupComposerObserver()
SigScriptLoad ==
    /\ ~sigLoaded
    /\ sigLoaded' = TRUE
    /\ styles' = scriptBody(Boot).styles
    /\ stylesSeen' = scriptBody(Boot).seen
    /\ CommitSig(scriptBody(Boot).sig)
    /\ UNCHANGED <<place, bodyQ, ready, gen, late, navVars, remVars, cbVars>>

\* the callback of the body observer for one added node (lines 191-211):
\* node.matches(composer), then node.querySelectorAll(composer)
HandleBodyRecord(s, r) ==
    IF r.kind = "iframe" \/ (r.kind = "box" /\ place[r.comp] = "boxed")
    THEN waitForIframeDoc(s, r.comp, ready[r.comp])
    ELSE s

RECURSIVE HandleBodyRecords(_, _)
HandleBodyRecords(s, rs) ==
    IF rs = <<>> THEN s
    ELSE HandleBodyRecords(HandleBodyRecord(s, Head(rs)), Tail(rs))

\* the body observer's callback with everything queued so far
BodyObserverDeliver ==
    /\ bodyQ # <<>>
    /\ bodyQ' = <<>>
    /\ CommitSig(HandleBodyRecords(Sig, bodyQ))
    /\ UNCHANGED <<sigLoaded, styles, stylesSeen, place, ready, gen, late, navVars, remVars, cbVars>>

\* a checkDoc timeout fires
TimerFire ==
    /\ timers # <<>>
    /\ LET w == Head(timers)
       IN  CommitSig(checkDoc([Sig EXCEPT !.timers = Tail(@)],
                              w.comp, w.attempts, ready[w.comp]))
    /\ UNCHANGED <<sigLoaded, styles, stylesSeen, place, bodyQ, ready, gen, late, navVars, remVars, cbVars>>

AnyRejected == \E d \in Composers : rejected[d] >= 1

NextComposer(c) == place[c] = "absent" /\ \A d \in Composers : d < c => place[d] # "absent"

QueueBody(r) == bodyQ' = IF sigLoaded THEN Append(bodyQ, r) ELSE bodyQ

\* the host appends a composer iframe to the page
HostAddIframe(c) ==
    /\ NextComposer(c)
    /\ place' = [place EXCEPT ![c] = "direct"]
    /\ QueueBody([kind |-> "iframe", comp |-> c])
    /\ late' = [late EXCEPT ![c] = AnyRejected]
    /\ UNCHANGED <<sigLoaded, styles, stylesSeen, ready, timers, started, rejected, uncaught,
                   docs, gen, brs, mq, navVars, remVars, cbVars>>

\* the host appends a container that already holds the composer iframe
HostAddBoxWithIframe(c) ==
    /\ NextComposer(c)
    /\ place' = [place EXCEPT ![c] = "boxed"]
    /\ QueueBody([kind |-> "box", comp |-> c])
    /\ late' = [late EXCEPT ![c] = AnyRejected]
    /\ UNCHANGED <<sigLoaded, styles, stylesSeen, ready, timers, started, rejected, uncaught,
                   docs, gen, brs, mq, navVars, remVars, cbVars>>

\* the host appends an empty container for a composer ...
HostAddBox(c) ==
    /\ NextComposer(c)
    /\ place' = [place EXCEPT ![c] = "box"]
    /\ QueueBody([kind |-> "box", comp |-> c])
    /\ UNCHANGED <<sigLoaded, styles, stylesSeen, ready, timers, started, rejected, uncaught,
                   docs, gen, brs, mq, late, navVars, remVars, cbVars>>

\* ... and puts the iframe into it afterwards
HostFillBox(c) ==
    /\ place[c] = "box"
    /\ place' = [place EXCEPT ![c] = "boxed"]
    /\ QueueBody([kind |-> "iframe", comp |-> c])
    /\ late' = [late EXCEPT ![c] = AnyRejected]
    /\ UNCHANGED <<sigLoaded, styles, stylesSeen, ready, timers, started, rejected, uncaught,
                   docs, gen, brs, mq, navVars, remVars, cbVars>>

\* The iframe's contentDocument becomes usable.  The moments the model lets
\* this happen: before the composer's first check, or while every pending
\* waiter of the composer has made a number of checks in ReadyAfter (early,
\* or with one check left); a document may also never become usable.
ReadyAfter == {1, 2, maxInitAttempts - 1}

HostDocReady(c) ==
    /\ InPage(place[c])
    /\ ~ready[c]
    /\ \A i \in 1..Len(timers) :
          timers[i].comp = c => timers[i].attempts \in ReadyAfter
    /\ ready' = [ready EXCEPT ![c] = TRUE]
    /\ docs' = [docs EXCEPT ![c] = EmptyDoc]
    /\ UNCHANGED <<sigLoaded, styles, stylesSeen, place, bodyQ, timers, started, rejected,
                   uncaught, gen, brs, mq, late, navVars, remVars, cbVars>>

\* The signature the host writes into a composer: two spacer lines and the
\* block, appended to the body one by one ("direct") or inside one wrapper
\* element ("wrapped").  The block is regular, empty, or regular with the
\* vendor line occurring twice ("double").
BlockKinds == {"regular", "empty", "double"}

SigNodes(n, kind) ==
    << Node(<<"sp1", n>>, "div", {}, <<>>),
       Node(<<"sp2", n>>, "div", {}, <<>>),
       Node(<<"blk", n>>, "div", {signatureBlock},
            << Node(<<"user", n>>, "div",
                    IF kind = "empty" THEN {userSignature, emptySignature}
                    ELSE {userSignature}, <<>>),
               Node(<<"proton", n>>, "div", {protonSignature}, <<>>) >>
            \o (IF kind = "double"
                THEN << Node(<<"proton2", n>>, "div", {protonSignature}, <<>>) >>
                ELSE <<>>)) >>

AppendKids(d, ns) == [d EXCEPT ![1].kids = @ \o ns]

HostInsertBlock(c) ==
    /\ ready[c]
    /\ gen[c] < MaxGen
    /\ gen' = [gen EXCEPT ![c] = @ + 1]
    /\ \E kind \in BlockKinds, mode \in {"direct", "wrapped"} :
         LET n == gen[c] + 1
             ns == IF mode = "direct" THEN SigNodes(n, kind)
                   ELSE << Node(<<"wrap", n>>, "div", {}, SigNodes(n, kind)) >>
         IN  /\ docs' = [docs EXCEPT ![c] = AppendKids(@, ns)]
             /\ mq' = [mq EXCEPT ![c] = Enqueue(@, [i \in 1..Len(ns) |-> ns[i].id])]
    /\ UNCHANGED <<sigLoaded, styles, stylesSeen, place, bodyQ, ready, timers, started,
                   rejected, uncaught, brs, late, navVars, remVars, cbVars>>

\* the callback of one observer of composer c's document with its records
ObserverDeliver(c) ==
    /\ \E k \in 1..Len(mq[c]) :
         /\ mq[c][k] # <<>>
         /\ LET r == HandleAll(Acc(docs[c], brs[c]), mq[c][k])
            IN  /\ docs' = [docs EXCEPT ![c] = r.dom]
                /\ brs' = [brs EXCEPT ![c] = r.brs]
                /\ mq' = [mq EXCEPT ![c] = Enqueue([@ EXCEPT ![k] = <<>>], r.added)]
                /\ uncaught' = IF r.escaped THEN uncaught + 1 ELSE uncaught
    /\ UNCHANGED <<sigLoaded, styles, stylesSeen, place, bodyQ, ready, timers, started,
                   rejected, gen, late, navVars, remVars, cbVars>>

NextSig ==
    \/ SigScriptLoad
    \/ BodyObserverDeliver
    \/ TimerFire
    \/ \E c \in Composers : HostAddIframe(c)
    \/ \E c \in Composers : HostAddBoxWithIframe(c)
    \/ \E c \in Composers : HostAddBox(c)
    \/ \E c \in Composers : HostFillBox(c)
    \/ \E c \in Composers : HostDocReady(c)
    \/ \E c \in Composers : HostInsertBlock(c)
    \/ \E c \in Composers : ObserverDeliver(c)

SpecSig == InitSig /\ [][NextSig]_vars

\* The page left alone by the host once it is loaded: the host finishes the
\* rendering it has started, navigates nowhere and removes nothing.  Every
\* behaviour of this specification is a behaviour of SpecNav.  Timers fire,
\* queued mutation records are delivered and the script body runs.
NextNavQuiet ==
    \/ ScriptLoad
    \/ MutationNotify
    \/ PollTick
    \/ CloseTick
    \/ HostRenderButton
    \/ HostRenderMenu

FairSpecNavQuiet ==
    /\ InitNav
    /\ [][NextNavQuiet]_vars
    /\ WF_vars(ScriptLoad)
    /\ WF_vars(MutationNotify)
    /\ WF_vars(PollTick)
    /\ WF_vars(CloseTick)
    /\ WF_vars(HostRenderButton)
    /\ WF_vars(HostRenderMenu)

\* The same page, with the event loop as the only obligation: the script
\* body runs, due timers fire and queued mutation records are delivered; the
\* host may render the button and the dropdown's options, or never do so.
FairSpecNavScript ==
    /\ InitNav
    /\ [][NextNavQuiet]_vars
    /\ WF_vars(ScriptLoad)
    /\ WF_vars(MutationNotify)
    /\ WF_vars(PollTick)
    /\ WF_vars(CloseTick)

\* ------------------------------------------------------------------------
\* Claims about the navigation watcher
\* ------------------------------------------------------------------------

\* C1: a handler that finds the inbox route without the marker writes the
\* marker exactly once and calls triggerSortByDate exactly once, the nested
\* checkURL (depth 2) adding nothing; and over all further notifications
\* delivered while the page stays on the inbox route the counts stay at one.
C1_MarkerOnceTriggerOnce ==
    /\ (ev.kind # "none" /\ EntersUnmarked(ev.entry)) =>
          /\ ev.writes = 1
          /\ ev.triggers = 1
          /\ ev.depth = 2
          /\ ~ev.overflow
          /\ HasMarker(url)
    /\ visit.active => (visit.writes = 1 /\ visit.triggers = 1)

C1_Witness ==
    /\ visit.active
    /\ visit.notifs = MaxNotif
    /\ visit.writes = 1
    /\ visit.triggers = 1
    /\ ev.kind = "mutation"
    /\ RunCount(runs) = 1

\* C2: a notification that finds the marker in the fragment calls
\* triggerSortByDate zero times, does not rewrite the URL, clicks nothing
\* and starts no timer.
C2_NoActionWhenMarked ==
    (ev.kind # "none" /\ HasMarker(ev.entry)) =>
        /\ ev.triggers = 0
        /\ ev.writes = 0
        /\ ev.clicks = 0
        /\ ev.timers = 0
        /\ url = ev.entry

C2_Witness ==
    /\ ev.kind = "popstate"
    /\ OnInbox(ev.entry)
    /\ ev.entry.hash = <<"x", sortParam>>
    /\ btnPresent
    /\ ev.triggers = 0

\* the handlers that run checkURL
UrlHandlers == {"load", "push", "replace", "popstate", "mutation"}

\* C19: a handler that finds the inbox route without the marker leaves the
\* path and the query as they were, replaces the whole fragment by the
\* marker, and leaves the number of history entries and the current entry's
\* position as they were; a handler that finds another path or the marker
\* leaves the URL and the history as they were.
C19_OnlyFragmentChanges ==
    ev.kind \in UrlHandlers =>
        /\ url.path = ev.entry.path
        /\ url.query = ev.entry.query
        /\ histLen = ev.elen
        /\ histIdx = ev.eidx
        /\ IF EntersUnmarked(ev.entry)
           THEN url.hash = <<sortParam>> /\ ev.writes = 1
           ELSE url = ev.entry /\ ev.writes = 0

C19_Witness ==
    /\ ev.kind = "popstate"
    /\ EntersUnmarked(ev.entry)
    /\ ev.entry.hash = <<"x">>
    /\ ev.entry.query = "q"
    /\ url = [ev.entry EXCEPT !.hash = <<sortParam>>]
    /\ histLen = MaxHist
    /\ histIdx = 1

\* C20: every handler ends without exhausting the stack; checkURL is nested
\* at most two deep, two exactly when the marker was written, and the marker
\* is written at most once; a host pushState or replaceState has moved the
\* history before checkURL looked at the URL, so the handler's result bears
\* the host's path with the marker wherever the inbox route was entered.
C20_RecursionEnds ==
    ev.kind \in UrlHandlers =>
        /\ ~ev.overflow
        /\ ev.depth <= 2
        /\ ev.writes <= 1
        /\ ev.depth = 1 + ev.writes
        /\ OnInbox(url) => HasMarker(url)
        /\ ev.kind = "push" => (histIdx = ev.eidx /\ histLen = histIdx)

C20_Witness ==
    /\ ev.kind = "push"
    /\ ev.depth = 2
    /\ ev.writes = 1
    /\ url.path = InboxPath2
    /\ url.hash = <<sortParam>>
    /\ histIdx = MaxHist

\* C3 (as claimed): whenever the inbox route is entered without the marker,
\* the oldest-first option is eventually clicked.
C3_EventuallySorted == owed ~> ~owed

\* C10 (as claimed): never two sequences started by triggerSortByDate in
\* flight (polling interval or close timer) at once.
C10_SingleFlight == RunCount(runs) <= 1

\* polling intervals that are still registered
PollCount(b) ==
    b[[phase |-> "poll", stale |-> FALSE]] + b[[phase |-> "poll", stale |-> TRUE]]

CloseCount(b) ==
    b[[phase |-> "close", stale |-> FALSE]] + b[[phase |-> "close", stale |-> TRUE]]

\* C12: the steps of a run of triggerSortByDate.  A handler that calls it
\* with the button absent clicks nothing and starts no timer; with the
\* button present it clicks the button once and registers one interval.  A
\* poll that finds no option does nothing; the poll that finds it clears
\* its interval, clicks the option once and starts the close timeout, so
\* the run polls no more.  The close timeout clicks the button once and
\* ends the run.  The option is clicked by polls only, hence after the
\* run's first click on the button and once per run.
C12_RunSteps ==
    [][/\ (ev'.kind \notin {"none", "poll", "close"} /\ ev'.triggers >= 1) =>
            IF btnPresent
            THEN /\ ev'.clicks = ev'.triggers
                 /\ ev'.timers = ev'.triggers
                 /\ ev'.opts = 0
                 /\ PollCount(runs') = PollCount(runs) + ev'.triggers
                 /\ CloseCount(runs') = CloseCount(runs)
            ELSE /\ ev'.clicks = 0
                 /\ ev'.timers = 0
                 /\ ev'.opts = 0
                 /\ runs' = runs
       /\ (ev'.kind \notin {"none", "poll", "close"} /\ ev'.triggers = 0) =>
            (ev'.clicks = 0 /\ ev'.opts = 0 /\ runs' = runs)
       /\ ev'.kind = "poll" =>
            /\ PollCount(runs) >= 1
            /\ IF optPresent
               THEN /\ ev'.opts = 1
                    /\ ev'.cleared = 1
                    /\ ev'.clicks = 0
                    /\ ev'.timers = 1
                    /\ PollCount(runs') = PollCount(runs) - 1
                    /\ CloseCount(runs') = CloseCount(runs) + 1
               ELSE /\ ev'.opts = 0
                    /\ ev'.clicks = 0
                    /\ ev'.timers = 0
                    /\ runs' = runs
       /\ ev'.kind = "close" =>
            /\ CloseCount(runs) >= 1
            /\ ev'.clicks = 1
            /\ ev'.opts = 0
            /\ ev'.timers = 0
            /\ CloseCount(runs') = CloseCount(runs) - 1
            /\ PollCount(runs') = PollCount(runs)
       /\ ev'.kind = "none" =>
            (PollCount(runs') + CloseCount(runs') = PollCount(runs) + CloseCount(runs))
      ]_vars

C12_Witness ==
    /\ ev.kind = "close"
    /\ ev.clicks = 1
    /\ RunCount(runs) = 0
    /\ btnPresent
    /\ ~menuOpen
    /\ optPresent
    /\ ~owed
    /\ HasMarker(url)

\* C11 (as claimed): every polling interval started by triggerSortByDate is
\* eventually cancelled, whether or not the oldest-first option appears.
C11_PollingEnds == (PollCount(runs) > 0) ~> (PollCount(runs) = 0)

\* ------------------------------------------------------------------------
\* Claims about removeSignature
\* ------------------------------------------------------------------------
IdSeq(dom) == LET a == AllNodes(dom) IN [i \in 1..Len(a) |-> a[i].id]

\* the element siblings that precede node id, in document order
ElemSibsBefore(dom, id) ==
    LET p == parentNode(dom, id)
    IN  SelectSeq(SubSeq(p.kids, 1, IndexIn(p.kids, id) - 1), IsElement)

LastIds(s, n) == {s[i].id : i \in {j \in 1..Len(s) : j > Len(s) - n}}

ProtonIdsIn(n) == IdSeq(SelectSeq(FlatSeq(n.kids), LAMBDA x : protonSignature \in x.cls))
HasProton(n) == ProtonIdsIn(n) # <<>>

FirstElemIsEmpty(n) ==
    LET e == SelectSeq(n.kids, IsElement)
    IN  e # <<>> /\ emptySignature \in e[1].cls

RsBlock == NodeById(rsBefore, rsNode)
RsSibs == ElemSibsBefore(rsBefore, rsNode)

\* what removeSignature left: the nodes of the old document without `gone`,
\* in their old order, plus one <br> that is the node right before the block
RsEffect(gone) ==
    /\ SelectSeq(IdSeq(rsDom), LAMBDA x : x # BrId)
          = SelectSeq(IdSeq(rsBefore), LAMBDA x : x \notin gone)
    /\ Cardinality({i \in 1..Len(IdSeq(rsDom)) : IdSeq(rsDom)[i] = BrId}) = 1
    /\ previousSibling(rsDom, rsNode).id = BrId
    /\ previousSibling(rsDom, rsNode).tag = "br"
    /\ parentNode(rsDom, rsNode).id = parentNode(rsBefore, rsNode).id

\* C4: on a block whose first element child is not the empty variant, which
\* holds a vendor signature and has a preceding element sibling,
\* removeSignature removes exactly that sibling and the (first) vendor
\* signature element, inserts one <br> right before the block, leaves the
\* block in place and returns true.
C4_NonEmptyRemoval ==
    (/\ rsRes # "none"
     /\ ~FirstElemIsEmpty(RsBlock)
     /\ HasProton(RsBlock)
     /\ RsSibs # <<>>)
    => /\ RsEffect(LastIds(RsSibs, 1) \cup {ProtonIdsIn(RsBlock)[1]})
       /\ rsRes = "true"

C4_Witness ==
    /\ rsRes = "true"
    /\ ~FirstElemIsEmpty(RsBlock)
    /\ HasProton(RsBlock)
    /\ Len(RsSibs) = 2
    /\ previousSibling(rsBefore, rsNode).tag = "#text"
    /\ RsSibs[1].id \in Ids(AllNodes(rsDom))
    /\ RsSibs[2].id \notin Ids(AllNodes(rsDom))

\* C5: on an empty block (first element child of class -empty) that holds a
\* vendor signature and has two preceding element siblings, removeSignature
\* removes both siblings and the vendor signature element and no other
\* node, inserts one <br> right before the block and returns true.
C5_EmptyRemoval ==
    (/\ rsRes # "none"
     /\ FirstElemIsEmpty(RsBlock)
     /\ HasProton(RsBlock)
     /\ Len(RsSibs) >= 2)
    => /\ RsEffect(LastIds(RsSibs, 2) \cup {ProtonIdsIn(RsBlock)[1]})
       /\ rsRes = "true"

C5_Witness ==
    /\ rsRes = "true"
    /\ FirstElemIsEmpty(RsBlock)
    /\ firstChild(RsBlock).tag = "#text"
    /\ Len(RsSibs) = 3
    /\ Ids(RsSibs) \cap Ids(AllNodes(rsDom)) = {RsSibs[1].id}
    /\ ~HasProton(NodeById(rsDom, rsNode))

\* C6: on a block without a vendor signature element removeSignature still
\* inserts the <br> and removes the preceding sibling(s), then returns false
\* without throwing; and it returns true only if a vendor signature element
\* was in the block and has been removed.
C6_AbsentVendorSignature ==
    /\ (rsRes # "none" /\ ~HasProton(RsBlock)) =>
          /\ RsEffect(LastIds(RsSibs, IF FirstElemIsEmpty(RsBlock) THEN 2 ELSE 1))
          /\ rsRes = "false"
    /\ rsRes = "true" =>
          /\ HasProton(RsBlock)
          /\ ProtonIdsIn(RsBlock)[1] \notin Ids(AllNodes(rsDom))

C6_Witness ==
    /\ rsRes = "false"
    /\ ~HasProton(RsBlock)
    /\ FirstElemIsEmpty(RsBlock)
    /\ Len(RsSibs) = 2
    /\ Ids(RsSibs) \cap Ids(AllNodes(rsDom)) = {}
    /\ previousSibling(rsDom, rsNode).id = BrId

\* ------------------------------------------------------------------------
\* Claims about the signature stripper
\* ------------------------------------------------------------------------
\* checkDoc timeouts pending for composer c
PendingFor(c) == Cardinality({i \in 1..Len(timers) : timers[i].comp = c})

\* document c holds a signature block with a vendor signature inside
VendorLeft(c) ==
    \E n \in Range(AllNodes(docs[c])) :
        IsSignatureBlock(n) /\ querySelector(n, protonSignature) # Null

\* C7: a waiter makes at most maxInitAttempts checks: a pending timeout has
\* made fewer, and the waiter is rejected by the check numbered
\* maxInitAttempts on a document still unusable, which schedules nothing and
\* attaches nothing.  Nothing reaches the event loop as an error.  A
\* document that is not usable has no observer.  Every waiter started is
\* pending, rejected or has attached an observer, also for a composer
\* inserted after a rejection, and such a composer in the page is detected
\* as soon as the body observer has run.
C7_AbandonWithoutBlocking ==
    /\ [](/\ \A i \in 1..Len(timers) : timers[i].attempts < maxInitAttempts
          /\ uncaught = 0
          /\ \A c \in Composers :
                /\ ~ready[c] => mq[c] = <<>>
                /\ started[c] = Len(mq[c]) + rejected[c] + PendingFor(c)
                /\ (late[c] /\ InPage(place[c]) /\ bodyQ = <<>>)
                      => started[c] >= 1)
    /\ [][\A c \in Composers :
            rejected'[c] # rejected[c] =>
                /\ timers # <<>>
                /\ Head(timers) = [comp |-> c, attempts |-> maxInitAttempts - 1]
                /\ ~ready[c]
                /\ timers' = Tail(timers)
                /\ rejected'[c] = rejected[c] + 1
                /\ mq' = mq
                /\ docs' = docs
                /\ bodyQ' = bodyQ
                /\ uncaught' = uncaught]_vars

C7_Witness ==
    /\ rejected[1] >= 1
    /\ rejected[1] = started[1]
    /\ ~ready[1]
    /\ mq[1] = <<>>
    /\ uncaught = 0
    /\ late[2]
    /\ ready[2]
    /\ Len(mq[2]) >= 1

\* C13 (as claimed): removeSignature is applied (line break inserted,
\* sibling removed, vendor signature removed, true returned) at most once
\* per signature block the host has inserted into a composer document.
C13_RemovedAtMostOnce == \A c \in Composers : brs[c] <= gen[c]

\* C14 (as claimed): for every composer iframe waitForIframeDoc is started
\* once, however its insertion reached the body observer or the initial
\* scan, and at most one observer is attached to its document.
C14_OneObserverPerComposer ==
    \A c \in Composers :
        /\ started[c] <= 1
        /\ Len(mq[c]) <= 1
        /\ (sigLoaded /\ InPage(place[c]) /\ bodyQ = <<>>) => started[c] = 1

\* the states of a composer instance
Observing(c) == Len(mq[c]) >= 1
Abandoned(c) == rejected[c] >= 1
WaitingForDocument(c) == PendingFor(c) >= 1

\* C15 (as claimed): a composer instance is never both Observing and
\* Abandoned; it becomes Observing only by a check that finds its document
\* usable and Abandoned only by the check numbered maxInitAttempts; once
\* Observing it stays Observing and is never Abandoned, once Abandoned it
\* stays Abandoned and never becomes Observing.
C15_ComposerStateMachine ==
    /\ [](\A c \in Composers : ~(Observing(c) /\ Abandoned(c)))
    /\ [][\A c \in Composers :
            /\ Observing(c) => (Observing(c)' /\ ~Abandoned(c)')
            /\ Abandoned(c) => (Abandoned(c)' /\ ~Observing(c)')
            /\ (~Observing(c) /\ Observing(c)') => ready[c]
            /\ (~Abandoned(c) /\ Abandoned(c)') =>
                  (/\ ~ready[c]
                   /\ timers # <<>>
                   /\ Head(timers) = [comp |-> c, attempts |-> maxInitAttempts - 1])
      ]_vars

\* C18: the script body installs the rule hiding the three signature-block
\* classes exactly once, and the rule is in place when the body observer is
\* attached, when the composers already present are scanned, and whenever a
\* composer document has an observer or a waiter; afterwards the rules in
\* the head stay as they are.
C18_StyleRuleOnceAndFirst ==
    /\ [](/\ ~sigLoaded => (styles = <<>> /\ stylesSeen = <<>>)
          /\ sigLoaded => (styles = <<HideRule>> /\ stylesSeen = <<1, 1>>)
          /\ \A c \in Composers :
                (Len(mq[c]) >= 1 \/ started[c] >= 1) => styles = <<HideRule>>)
    /\ [][styles # <<>> => styles' = styles]_vars

C18_Witness ==
    /\ sigLoaded
    /\ styles = <<HideRule>>
    /\ stylesSeen = <<1, 1>>
    /\ \E c \in Composers : Len(mq[c]) >= 1 /\ brs[c] >= 1
    /\ \E c \in Composers : rejected[c] >= 1

\* nothing is scheduled that could still act on document c
Settled(c) ==
    /\ sigLoaded
    /\ PendingFor(c) = 0
    /\ \A i \in 1..Len(bodyQ) : bodyQ[i].comp # c
    /\ \A k \in 1..Len(mq[c]) : mq[c][k] = <<>>

\* C17 (as claimed): the step that attaches an observer to a document
\* leaves no block of the document unhandled (the pre-pass is synchronous);
\* a block is never stripped by both the pre-pass and a callback; and once
\* an observed document has nothing pending, every block the host inserted,
\* before or after the attach, has been stripped exactly once.
C17_PrePassOrCallback ==
    /\ [](\A c \in Composers :
            /\ brs[c] <= gen[c]
            /\ (Len(mq[c]) >= 1 /\ Settled(c)) => brs[c] = gen[c])
    /\ [][\A c \in Composers :
            Len(mq'[c]) > Len(mq[c]) => brs'[c] >= gen[c]]_vars

\* C8: with two composers observed and a signature block with a vendor
\* signature inserted into each, once every callback and timeout of the two
\* has run neither document holds a vendor signature inside a signature
\* block.  A document the host has put nothing into is left as it is
\* whatever happens in the other one, and a timeout or an observer callback
\* that changes one document leaves the other document, its <br> count and
\* its observers' queues alone.
C8_BothStrippedIndependently ==
    /\ []((\A c \in Composers : Len(mq[c]) >= 1 /\ gen[c] >= 1 /\ Settled(c))
            => (\A c \in Composers : ~VendorLeft(c)))
    /\ [](\A c \in Composers :
            (ready[c] /\ gen[c] = 0) => (docs[c] = EmptyDoc /\ brs[c] = 0))
    /\ [][\A c, d \in Composers :
            (c # d /\ docs'[c] # docs[c] /\ bodyQ' = bodyQ /\ sigLoaded' = sigLoaded)
                => (docs'[d] = docs[d] /\ brs'[d] = brs[d] /\ mq'[d] = mq[d])]_vars

\* C9: the vendor signature of a signature block in the document of an
\* observed composer is eventually removed; hence, once nothing is scheduled
\* for that composer any more, no signature block of the document holds a
\* vendor signature, however the block arrived.
C9_EventuallyStripped ==
    \A c \in Composers :
        (Len(mq[c]) >= 1 /\ Settled(c)) => ~VendorLeft(c)

\* With the block itself among the added nodes of the record the removal
\* does happen (no wrapper element in the document).
DirectInsertStripped ==
    \A c \in Composers :
        (/\ Len(mq[c]) >= 1
         /\ Settled(c)
         /\ \A n \in Range(AllNodes(docs[c])) : n.id[1] # "wrap")
        => ~VendorLeft(c)

\* ------------------------------------------------------------------------
\* Claims about the observer callback
\* ------------------------------------------------------------------------
RECURSIVE Concat(_)
Concat(ss) == IF ss = <<>> THEN <<>> ELSE Head(ss) \o Concat(Tail(ss))

CbWasAttached(id) == parentNode(cbBefore, id) # Null
CbHadVendor(id) == querySelector(NodeById(cbBefore, id), protonSignature) # Null

\* the delivered signature blocks that held a vendor signature, in order:
\* the nodes the callback passes to removeSignature
CbCalls ==
    SelectSeq(Concat(cbDone),
              LAMBDA id : IsSignatureBlock(NodeById(cbBefore, id)) /\ CbHadVendor(id))

\* C16: no callback is ended by an exception.  removeSignature returns
\* false for a block without parent and leaves that block and the <br>
\* count as they were; every attached block with a vendor signature that
\* has been delivered, in the same batch after such a block or in a later
\* batch, has been stripped with true returned.
C16_ExceptionCaught ==
    /\ cbEscaped = 0
    /\ cbRets = [i \in 1..Len(CbCalls) |-> CbWasAttached(CbCalls[i])]
    /\ cbBrs = Cardinality({i \in 1..Len(CbCalls) : CbWasAttached(CbCalls[i])})
    /\ \A i \in 1..Len(CbCalls) :
          IF CbWasAttached(CbCalls[i])
          THEN querySelector(NodeById(cbDom, CbCalls[i]), protonSignature) = Null
          ELSE /\ NodeById(cbDom, CbCalls[i]) = NodeById(cbBefore, CbCalls[i])
               /\ parentNode(cbDom, CbCalls[i]) = Null

C16_Witness ==
    /\ cbQueue = <<>>
    /\ Len(cbDone) >= 2
    /\ cbDone[1] = << <<"blk", 1>>, <<"sp1", 2>>, <<"sp2", 2>>, <<"blk", 2>> >>
    /\ cbDone[2] = << <<"sp1", 3>>, <<"sp2", 3>>, <<"blk", 3>> >>
    /\ cbRets = <<FALSE, TRUE, TRUE>>
    /\ cbEscaped = 0
    /\ querySelector(NodeById(cbDom, <<"blk", 1>>), protonSignature) # Null
    /\ querySelector(NodeById(cbDom, <<"blk", 2>>), protonSignature) = Null
    /\ querySelector(NodeById(cbDom, <<"blk", 3>>), protonSignature) = Null

====
